---------------------------- MODULE Spec2Model ----------------------------
(***************************************************************************)
(* Model of the Slack-to-Glue webhook relay (src/app.py).                  *)
(*                                                                         *)
(* A text is a sequence of chunks.  A chunk is one of the characters the   *)
(* code looks at ('<', '>', '|', '#', white space), one of the URL schemes  *)
(* "http://" and "https://" (the regular expressions only ever test for a  *)
(* scheme directly after '<'), or a piece of text holding none of these.   *)
(* A Python dict is a function whose DOMAIN is its set of keys; None is    *)
(* the record [none |-> TRUE].  Inbound payloads are JSON objects whose    *)
(* recognised fields carry the types app.py expects (text: string,         *)
(* attachments: list of objects, message: object).                         *)
(***************************************************************************)
EXTENDS Integers, Sequences, FiniteSets, TLC

VARIABLES
    debug,            \* app.debug or DEBUG=true: reload-on-read         (l.56)
    file,             \* the YAML file at config_path, as _load_config sees it
    edits,            \* how many times the file was edited since start-up
    config,           \* processor.config: the current snapshot        (l.33,51)
    pc,               \* per thread: where the request handler stands
    service_id,       \* per thread: <service_id> of the route          (l.331)
    payload,          \* per thread: the decoded inbound payload        (l.337)
    service_config,   \* per thread: process_webhook's local            (l.101)
    forward_payload,  \* per thread: process_webhook's local            (l.154)
    result,           \* per thread: process_webhook's local            (l.176)
    response,         \* per thread: what handle_webhook returns
    calls,            \* per thread: the requests.post calls issued, in order
    seen,             \* per thread: the snapshot get_service_config met
    text,             \* normaliser harness: the input string
    converted         \* normaliser harness: the successive conversions

vars == <<debug, file, edits, config, pc, service_id, payload, service_config,
          forward_payload, result, response, calls, seen, text, converted>>

reqVars == <<debug, file, edits, config, pc, service_id, payload,
             service_config, forward_payload, result, response, calls, seen>>

-----------------------------------------------------------------------------
(* Bounds *)

\* longest input string of the normaliser harness
MaxLen == 6
\* how many times the configuration file is edited after start-up
MaxEdits == 2

-----------------------------------------------------------------------------
(* Python values *)

None == [none |-> TRUE]

IsNone(v) == "none" \in DOMAIN v

EmptyDict == [k \in {} |-> k]

\* dict.get(key, default)
Get(d, key, default) == IF key \in DOMAIN d THEN d[key] ELSE default

\* truthiness of d.get(key) for a string-valued key: None and '' are falsy
Truthy(d, key) == key \in DOMAIN d /\ d[key] # ""

Whitespace == {" ", "\n", "\t"}

Min(S) == CHOOSE m \in S : \A n \in S : m <= n

\* the text from index i on
From(s, i) == SubSeq(s, i, Len(s))

\* str.lstrip(chars)
LStrip(s, chars) ==
    LET keep == {i \in 1..Len(s) : s[i] \notin chars}
    IN  IF keep = {} THEN <<>> ELSE From(s, Min(keep))

\* str.rstrip(chars)
RStrip(s, chars) ==
    LET keep == {i \in 1..Len(s) : s[i] \notin chars}
    IN  IF keep = {} THEN <<>>
        ELSE SubSeq(s, 1, CHOOSE m \in keep : \A n \in keep : n <= m)

\* str.strip()
Strip(s) == RStrip(LStrip(s, Whitespace), Whitespace)

\* str.startswith(c)
StartsWith(s, c) == Len(s) > 0 /\ s[1] = c

-----------------------------------------------------------------------------
(* The markup normaliser: _convert_slack_to_markdown, l.63-73 *)

Scheme == {"http://", "https://"}

\* index of the first chunk of s at or after i that is in set, 0 if none
FirstIn(s, i, set) ==
    LET hits == {j \in i..Len(s) : s[j] \in set}
    IN  IF hits = {} THEN 0 ELSE Min(hits)

\* re.match of <([^|>]+)\|([^>]+)> at index i: the bounds of the two groups
\* and the index of the closing '>', or None.  Both groups are runs of a
\* negated class that excludes the chunk that must follow, so the greedy
\* match is the only one.
MatchLink(s, i) ==
    IF i > Len(s) \/ s[i] # "<" THEN None
    ELSE LET bar == FirstIn(s, i + 1, {"|", ">"})
         IN  IF bar = 0 \/ s[bar] # "|" \/ bar = i + 1 THEN None
             ELSE LET close == FirstIn(s, bar + 1, {">"})
                  IN  IF close = 0 \/ close = bar + 1 THEN None
                      ELSE [url   |-> SubSeq(s, i + 1, bar - 1),
                            label |-> SubSeq(s, bar + 1, close - 1),
                            end   |-> close]

\* re.match of <(https?://[^>]+)> at index i
MatchBareUrl(s, i) ==
    IF i + 1 > Len(s) \/ s[i] # "<" \/ s[i + 1] \notin Scheme THEN None
    ELSE LET close == FirstIn(s, i + 2, {">"})
         IN  IF close = 0 \/ close = i + 2 THEN None
             ELSE [url |-> SubSeq(s, i + 1, close - 1), end |-> close]

\* re.sub(r'<([^|>]+)\|([^>]+)>', r'[\2](\1)', text): leftmost matches, left
\* to right, never overlapping
RECURSIVE SubLinks(_, _)
SubLinks(s, i) ==
    IF i > Len(s) THEN <<>>
    ELSE LET m == MatchLink(s, i)
         IN  IF IsNone(m) THEN <<s[i]>> \o SubLinks(s, i + 1)
             ELSE <<"[">> \o m.label \o <<"]", "(">> \o m.url \o <<")">>
                  \o SubLinks(s, m.end + 1)

\* re.sub(r'<(https?://[^>]+)>', r'\1', text)
RECURSIVE SubBareUrls(_, _)
SubBareUrls(s, i) ==
    IF i > Len(s) THEN <<>>
    ELSE LET m == MatchBareUrl(s, i)
         IN  IF IsNone(m) THEN <<s[i]>> \o SubBareUrls(s, i + 1)
             ELSE m.url \o SubBareUrls(s, m.end + 1)

\* a plausible slip: the bare-URL substitution is left out
ConvertLinksOnly(s) == SubLinks(s, 1)

_convert_slack_to_markdown(s) == SubBareUrls(SubLinks(s, 1), 1)

-----------------------------------------------------------------------------
(* The payload extractor and the forward request: process_webhook, l.121-162 *)

\* attachments[0].get('text', '') when attachments is a non-empty list, else ''
AttachmentText(p) ==
    LET attachments == Get(p, "attachments", <<>>)
    IN  IF Len(attachments) > 0 THEN Get(attachments[1], "text", <<>>)
        ELSE <<>>

\* ', '.join(parts[i:])
RECURSIVE Join(_, _)
Join(parts, i) ==
    IF i > Len(parts) THEN <<>>
    ELSE parts[i] \o (IF i < Len(parts) THEN <<", ">> ELSE <<>>)
         \o Join(parts, i + 1)

ReprStr(s) == <<"'">> \o s \o <<"'">>

ReprObject(o) ==
    <<"{">>
    \o (IF "text" \in DOMAIN o THEN <<"'text': ">> \o ReprStr(o.text)
        ELSE IF "color" \in DOMAIN o THEN <<"'color': ">> \o ReprStr(<<o.color>>)
        ELSE <<"'user': ">> \o ReprStr(<<o.user>>))
    \o <<"}">>

ReprField(p, key) ==
    <<"'", key, "': ">>
    \o (CASE key = "text" -> ReprStr(p.text)
          [] key = "attachments" ->
                <<"[">>
                \o Join([i \in 1..Len(p.attachments) |->
                            ReprObject(p.attachments[i])], 1)
                \o <<"]">>
          [] key = "message" -> ReprObject(p.message))

\* str(payload)
Str(p) ==
    LET keys == SelectSeq(<<"text", "attachments", "message">>,
                          LAMBDA k : k \in DOMAIN p)
    IN  <<"{">> \o Join([i \in 1..Len(keys) |-> ReprField(p, keys[i])], 1)
        \o <<"}">>

\* a plausible slip: the stringified-payload fallback of l.144-146 is missing
MessageTextNoFallback(p) ==
    LET fromAttachment == AttachmentText(p)
        fromText == IF fromAttachment = <<>> THEN Get(p, "text", <<>>)
                    ELSE fromAttachment
    IN  IF fromText = <<>> /\ "message" \in DOMAIN p
        THEN Get(p.message, "text", <<>>)
        ELSE fromText

\* message_text as it stands at l.147, before the markup conversion
MessageText(p) ==
    LET fromAttachment == AttachmentText(p)
        fromText == IF fromAttachment = <<>> THEN Get(p, "text", <<>>)
                    ELSE fromAttachment
        fromMessage == IF fromText = <<>> /\ "message" \in DOMAIN p
                       THEN Get(p.message, "text", <<>>)
                       ELSE fromText
    IN  IF fromMessage = <<>> THEN Str(p) ELSE fromMessage

\* a plausible slip: the heading marks are not removed
ThreadSubjectKeepsHeading(p) ==
    IF AttachmentText(p) = <<>> THEN <<>>
    ELSE Strip(Get(p, "text", <<>>))

\* a plausible slip: the subject is kept when the body fell back to the text
ThreadSubjectNoTieBreak(p) ==
    LET stripped == Strip(Get(p, "text", <<>>))
    IN  IF StartsWith(stripped, "#") THEN Strip(LStrip(stripped, {"#"}))
        ELSE stripped

\* thread_subject as it stands at l.160
ThreadSubject(p) ==
    LET stripped == Strip(Get(p, "text", <<>>))
        heading == IF StartsWith(stripped, "#")
                   THEN Strip(LStrip(stripped, {"#"}))
                   ELSE stripped
        message_text == AttachmentText(p)
    IN  IF message_text = <<>>
        THEN \* l.135-138: message_text is re-read from the same field it is
             \* then compared with
             LET fallback == Get(p, "text", <<>>)
             IN  IF fallback = Get(p, "text", <<>>) THEN <<>> ELSE heading
        ELSE heading

\* forward_payload, l.149-161
ForwardPayload(p, target) ==
    LET base == [text   |-> _convert_slack_to_markdown(MessageText(p)),
                 target |-> target]
        thread_subject == ThreadSubject(p)
    IN  IF thread_subject # <<>>
        THEN base @@ ("threadSubject" :> thread_subject)
        ELSE base

-----------------------------------------------------------------------------
(* Outbound calls and their classification *)

StatusCodes == {200, 204, 500}

Responses == {[kind |-> "response", status_code |-> c] : c \in StatusCodes}

\* what requests.post can do in process_webhook
PrimaryOutcomes == Responses \cup {[kind |-> "RequestException"]}

\* what the try block of _post_to_slack can do
MirrorOutcomes == PrimaryOutcomes \cup {[kind |-> "Exception"]}

\* a plausible slip: every 2xx answer counts as success
ResultOfAny2xx(outcome) ==
    IF outcome.kind = "response"
    THEN IF outcome.status_code \in 200..299
         THEN [status |-> "success",
               message |-> <<"Webhook forwarded successfully">>,
               response_code |-> outcome.status_code]
         ELSE [status |-> "warning",
               message |-> <<"Target server returned status ",
                             ToString(outcome.status_code)>>,
               response_code |-> outcome.status_code]
    ELSE [status |-> "error",
          message |-> <<"Error forwarding webhook to target server">>]

\* result, l.174-194
ResultOf(outcome) ==
    IF outcome.kind = "response"
    THEN IF outcome.status_code = 200
         THEN [status |-> "success",
               message |-> <<"Webhook forwarded successfully">>,
               response_code |-> outcome.status_code]
         ELSE [status |-> "warning",
               message |-> <<"Target server returned status ",
                             ToString(outcome.status_code)>>,
               response_code |-> outcome.status_code]
    ELSE [status |-> "error",
          message |-> <<"Error forwarding webhook to target server">>]

\* the status code handle_webhook pairs with a result, l.383-389
StatusCodeOf(res) ==
    IF res.status = "success" THEN 200
    ELSE IF res.status = "warning" THEN 202
    ELSE 400

\* jsonify(result), code
Reply(res) == [body |-> res, code |-> StatusCodeOf(res)]

\* the except clause of handle_webhook, l.391-396
InternalServerError ==
    [body |-> [status |-> "error", message |-> <<"Internal server error">>],
     code |-> 500]

BadRequest(message) ==
    [body |-> [status |-> "error", message |-> <<message>>], code |-> 400]

\* a plausible slip: only requests' own exceptions are caught
SwallowedOnlyRequestException(outcome) ==
    outcome.kind \in {"response", "RequestException"}

\* whether _post_to_slack returns normally, l.80-97: a response is logged,
\* and both except clauses log and return
Swallowed(outcome) ==
    outcome.kind \in {"response", "RequestException", "Exception"}

\* a plausible slip: the transformed request is mirrored
MirrorJsonForwarded(p, fwd) == fwd

\* the json argument of the mirror call, l.84 with l.199
MirrorJson(p, fwd) == p

\* a plausible slip: any() where all() is meant
CompleteIfAny(sc) == Truthy(sc, "target") \/ Truthy(sc, "webhook_url")

\* all([target, webhook_url]), l.111-114
Complete(sc) == Truthy(sc, "target") /\ Truthy(sc, "webhook_url")

\* self.config.get('global', {}).get('timeout_seconds', 30), l.86
MirrorTimeout(cfg) ==
    Get(Get(cfg, "global", EmptyDict), "timeout_seconds", 30)

\* timeout=30, l.171
PrimaryTimeout == 30

-----------------------------------------------------------------------------
(* Configuration files and inbound requests the model draws from *)

ConfigV1 ==
    [global   |-> [timeout_seconds |-> 5],
     services |->
        [alerts |-> [description |-> "alerts", webhook_url |-> "D1",
                     target |-> "grp_1", slack_webhook |-> "M1"],
         builds |-> [description |-> "builds", webhook_url |-> "D2",
                     target |-> "thr_2"],
         broken |-> [description |-> "no target", webhook_url |-> "D3",
                     slack_webhook |-> "M3"]]]

ConfigV2 ==
    [services |->
        [alerts |-> [description |-> "alerts", webhook_url |-> "D1b",
                     target |-> "grp_9", slack_webhook |-> "M1b"],
         builds |-> [description |-> "empty url", webhook_url |-> "",
                     target |-> "thr_2", slack_webhook |-> "M2"]]]

Configs == {ConfigV1, ConfigV2}

\* what _load_config can meet at config_path
FileStates ==
    {[state |-> "ok", content |-> c] : c \in Configs}
    \cup {[state |-> "missing"], [state |-> "unparsable"]}

ServiceIds == {"alerts", "builds", "broken", "unknown"}

Threads == {"t1", "t2"}

TopTexts ==
    {<<>>, <<"a">>, <<"#", " ", "a">>, <<" ", "#", "#", " ">>,
     <<"<", "https://", "x", ">">>}

AttachmentTexts == {<<>>, <<"a">>, <<"<", "http://", "x", "|", "b", ">">>}

MessageTexts == {<<>>, <<"m">>}

AttachmentLists ==
    {<<>>, <<[color |-> "red"]>>, <<[text |-> <<>>], [text |-> <<"a">>]>>}
    \cup {<<[text |-> t]>> : t \in AttachmentTexts}

Messages == {[user |-> "u"]} \cup {[text |-> t] : t \in MessageTexts}

Optional(key, values) == {EmptyDict} \cup {key :> v : v \in values}

\* the payloads of the sequential specification
AllPayloads ==
    {t @@ a @@ m : t \in Optional("text", TopTexts),
                   a \in Optional("attachments", AttachmentLists),
                   m \in Optional("message", Messages)}

\* the payloads of the concurrent specification
FewPayloads ==
    {[text |-> <<"#", " ", "a">>,
      attachments |-> <<[text |-> <<"<", "http://", "x", "|", "b", ">">>]>>],
     EmptyDict}

ContentTypes == {"application/json", "application/x-www-form-urlencoded"}

\* a request body: JSON text of a payload, text that is no JSON, or nothing
\* (an empty body, or a form without a 'payload' field)
Bodies(payloads) ==
    {[kind |-> "json", value |-> p] : p \in payloads}
    \cup {[kind |-> "invalid"], [kind |-> "absent"]}

-----------------------------------------------------------------------------
(* The request handler, one thread per request in flight *)

InitApp ==
    /\ debug \in BOOLEAN
    /\ config \in Configs
    /\ file = [state |-> "ok", content |-> config]
    /\ edits = 0
    /\ pc = [t \in Threads |-> "idle"]
    /\ service_id = [t \in Threads |-> ""]
    /\ payload = [t \in Threads |-> None]
    /\ service_config = [t \in Threads |-> None]
    /\ forward_payload = [t \in Threads |-> None]
    /\ result = [t \in Threads |-> None]
    /\ response = [t \in Threads |-> None]
    /\ calls = [t \in Threads |-> <<>>]
    /\ seen = [t \in Threads |-> None]

\* somebody edits, removes or breaks the configuration file
EditFile(f) ==
    /\ edits < MaxEdits
    /\ f # file
    /\ file' = f
    /\ edits' = edits + 1
    /\ UNCHANGED <<debug, config, pc, service_id, payload, service_config,
                   forward_payload, result, response, calls, seen, text,
                   converted>>

\* what the decoding of l.337-376 answers with: a payload to process, or
\* the 400 reply
Decode(content_type, body) ==
    IF content_type = "application/x-www-form-urlencoded"
    THEN IF body.kind = "absent"
         THEN BadRequest("Form data must contain a \"payload\" field with JSON")
         ELSE IF body.kind = "invalid"
         THEN BadRequest("Invalid JSON in payload field")
         ELSE IF body.value = EmptyDict
         THEN BadRequest("Request body cannot be empty")
         ELSE [payload |-> body.value]
    ELSE IF body.kind # "json"
         THEN BadRequest("Request body must be valid JSON")
         ELSE IF body.value = EmptyDict
         THEN BadRequest("Request body cannot be empty")
         ELSE [payload |-> body.value]

\* handle_webhook up to the call of process_webhook, l.331-381
handle_webhook(t, sid, content_type, body) ==
    /\ pc[t] = "idle"
    /\ LET decoded == Decode(content_type, body)
       IN  IF "payload" \in DOMAIN decoded
           THEN /\ payload' = [payload EXCEPT ![t] = decoded.payload]
                /\ pc' = [pc EXCEPT ![t] = IF debug THEN "reload" ELSE "lookup"]
                /\ UNCHANGED response
           ELSE /\ response' = [response EXCEPT ![t] = decoded]
                /\ pc' = [pc EXCEPT ![t] = "done"]
                /\ UNCHANGED payload
    /\ service_id' = [service_id EXCEPT ![t] = sid]
    /\ UNCHANGED <<debug, file, edits, config, service_config,
                   forward_payload, result, calls, seen, text, converted>>

\* reload_config called from get_service_config in debug mode, l.56-58, with
\* _load_config, l.35-47: the snapshot is replaced by the file's content, or
\* ConfigError is raised and handle_webhook answers 500, l.391-396
reload_config(t) ==
    /\ pc[t] = "reload"
    /\ \/ /\ file.state = "ok"
          /\ config' = file.content
          /\ pc' = [pc EXCEPT ![t] = "lookup"]
          /\ UNCHANGED <<response, seen>>
       \/ /\ file.state # "ok"
          /\ seen' = [seen EXCEPT ![t] = [config |-> config, looked_up |-> FALSE]]
          /\ response' = [response EXCEPT ![t] = InternalServerError]
          /\ pc' = [pc EXCEPT ![t] = "done"]
          /\ UNCHANGED config
    /\ UNCHANGED <<debug, file, edits, service_id, payload, service_config,
                   forward_payload, result, calls, text, converted>>

\* the lookup of get_service_config, l.60-61, and process_webhook up to the
\* primary call, l.101-162
process_webhook(t) ==
    /\ pc[t] = "lookup"
    /\ LET sc == Get(Get(config, "services", EmptyDict), service_id[t], None)
       IN  /\ service_config' = [service_config EXCEPT ![t] = sc]
           /\ seen' = [seen EXCEPT ![t] = [config |-> config, looked_up |-> TRUE]]
           /\ IF IsNone(sc)
              THEN LET res == [status |-> "error",
                               message |-> <<"No configuration found for service ID: ",
                                             service_id[t]>>]
                   IN  /\ result' = [result EXCEPT ![t] = res]
                       /\ response' = [response EXCEPT ![t] = Reply(res)]
                       /\ pc' = [pc EXCEPT ![t] = "done"]
                       /\ UNCHANGED forward_payload
              ELSE IF ~Complete(sc)
              THEN LET res == [status |-> "error",
                               message |-> <<"Incomplete service configuration (missing target or webhook_url)">>]
                   IN  /\ result' = [result EXCEPT ![t] = res]
                       /\ response' = [response EXCEPT ![t] = Reply(res)]
                       /\ pc' = [pc EXCEPT ![t] = "done"]
                       /\ UNCHANGED forward_payload
              ELSE /\ forward_payload' = [forward_payload EXCEPT ![t] =
                          ForwardPayload(payload[t], Get(sc, "target", ""))]
                   /\ pc' = [pc EXCEPT ![t] = "primary"]
                   /\ UNCHANGED <<result, response>>
    /\ UNCHANGED <<debug, file, edits, config, service_id, payload, calls,
                   text, converted>>

\* the primary call and its classification, l.165-194; without a
\* slack_webhook the result is returned and answered, l.197-201, 383-389
post_to_glue(t, outcome) ==
    /\ pc[t] = "primary"
    /\ calls' = [calls EXCEPT ![t] = Append(@,
            [kind    |-> "primary",
             url     |-> Get(service_config[t], "webhook_url", ""),
             json    |-> forward_payload[t],
             timeout |-> PrimaryTimeout,
             outcome |-> outcome])]
    /\ result' = [result EXCEPT ![t] = ResultOf(outcome)]
    /\ IF Truthy(service_config[t], "slack_webhook")
       THEN /\ pc' = [pc EXCEPT ![t] = "mirror"]
            /\ UNCHANGED response
       ELSE /\ pc' = [pc EXCEPT ![t] = "done"]
            /\ response' = [response EXCEPT ![t] = Reply(ResultOf(outcome))]
    /\ UNCHANGED <<debug, file, edits, config, service_id, payload,
                   service_config, forward_payload, seen, text, converted>>

\* _post_to_slack, l.75-97, then the return of the result and the answer,
\* l.201 and l.383-389; an exception that is not swallowed reaches the
\* except clause of handle_webhook
_post_to_slack(t, outcome) ==
    /\ pc[t] = "mirror"
    /\ calls' = [calls EXCEPT ![t] = Append(@,
            [kind    |-> "mirror",
             url     |-> service_config[t].slack_webhook,
             json    |-> MirrorJson(payload[t], forward_payload[t]),
             timeout |-> MirrorTimeout(config),
             outcome |-> outcome])]
    /\ response' = [response EXCEPT ![t] =
            IF Swallowed(outcome) THEN Reply(result[t])
            ELSE InternalServerError]
    /\ pc' = [pc EXCEPT ![t] = "done"]
    /\ UNCHANGED <<debug, file, edits, config, service_id, payload,
                   service_config, forward_payload, result, seen, text,
                   converted>>

\* the answer is sent and the thread takes the next request
send_response(t) ==
    /\ pc[t] = "done"
    /\ pc' = [pc EXCEPT ![t] = "idle"]
    /\ service_id' = [service_id EXCEPT ![t] = ""]
    /\ payload' = [payload EXCEPT ![t] = None]
    /\ service_config' = [service_config EXCEPT ![t] = None]
    /\ forward_payload' = [forward_payload EXCEPT ![t] = None]
    /\ result' = [result EXCEPT ![t] = None]
    /\ response' = [response EXCEPT ![t] = None]
    /\ calls' = [calls EXCEPT ![t] = <<>>]
    /\ seen' = [seen EXCEPT ![t] = None]
    /\ UNCHANGED <<debug, file, edits, config, text, converted>>

Init ==
    /\ InitApp
    /\ text = <<>>
    /\ converted = <<>>

\* two requests in flight at a time
Next ==
    \/ \E f \in FileStates : EditFile(f)
    \/ \E t \in Threads :
          \/ \E sid \in ServiceIds, ct \in ContentTypes,
                body \in Bodies(FewPayloads) :
                handle_webhook(t, sid, ct, body)
          \/ reload_config(t)
          \/ process_webhook(t)
          \/ \E outcome \in PrimaryOutcomes : post_to_glue(t, outcome)
          \/ \E outcome \in MirrorOutcomes : _post_to_slack(t, outcome)
          \/ send_response(t)

Spec == Init /\ [][Next]_vars

\* one request at a time, over the whole set of payloads
NextSeq ==
    \/ \E f \in FileStates : EditFile(f)
    \/ \E sid \in ServiceIds, ct \in ContentTypes,
          body \in Bodies(AllPayloads) :
          handle_webhook("t1", sid, ct, body)
    \/ reload_config("t1")
    \/ process_webhook("t1")
    \/ \E outcome \in PrimaryOutcomes : post_to_glue("t1", outcome)
    \/ \E outcome \in MirrorOutcomes : _post_to_slack("t1", outcome)
    \/ send_response("t1")

SpecSeq == Init /\ [][NextSeq]_vars

-----------------------------------------------------------------------------
(* Normaliser harness: a string is converted, and the result again *)

Alphabet == {"<", ">", "|", "http://", "x"}

Strings == UNION {[1..n -> Alphabet] : n \in 0..MaxLen}

InitNorm ==
    /\ InitApp
    /\ debug = FALSE
    /\ config = ConfigV1
    /\ text \in Strings
    /\ converted = <<>>

\* the conversion is applied to the string, then to its own result
Convert ==
    /\ Len(converted) < 2
    /\ converted' = Append(converted,
           _convert_slack_to_markdown(
               IF converted = <<>> THEN text ELSE converted[Len(converted)]))
    /\ UNCHANGED <<text, reqVars>>

NextNorm == Convert

SpecNorm == InitNorm /\ [][NextNorm]_vars

-----------------------------------------------------------------------------
(* Vocabulary of the properties *)

Finished(t) == pc[t] = "done"

\* the request of thread t has issued its primary call
Forwarded(t) == Len(calls[t]) >= 1

PrimaryCalls(t) == {i \in 1..Len(calls[t]) : calls[t][i].kind = "primary"}

MirrorCalls(t) == {i \in 1..Len(calls[t]) : calls[t][i].kind = "mirror"}

\* entry e has no usable value under key
Lacks(e, key) == key \notin DOMAIN e \/ e[key] = ""

\* sid has no entry in snapshot cfg, or one without destination or target
Unconfigured(cfg, sid) ==
    \/ sid \notin DOMAIN cfg.services
    \/ Lacks(cfg.services[sid], "webhook_url")
    \/ Lacks(cfg.services[sid], "target")

\* global.timeout_seconds of snapshot cfg when set, 30 otherwise
ConfiguredTimeout(cfg) ==
    IF "global" \in DOMAIN cfg /\ "timeout_seconds" \in DOMAIN cfg.global
    THEN cfg.global.timeout_seconds
    ELSE 30

\* attachments is a non-empty list whose first element has a non-empty text
HasAttachmentText(p) ==
    /\ "attachments" \in DOMAIN p
    /\ Len(p.attachments) > 0
    /\ "text" \in DOMAIN p.attachments[1]
    /\ p.attachments[1].text # <<>>

\* the top-level text trimmed, then without its leading '#' marks and the
\* white space after them
HeadingStripped(p) ==
    LStrip(LStrip(Strip(Get(p, "text", <<>>)), {"#"}), Whitespace)

\* a '<' stands between a '<' and the next '>'
Nested(s) ==
    \E i, j \in 1..Len(s) :
        /\ i < j
        /\ s[i] = "<"
        /\ s[j] = "<"
        /\ \A k \in (i + 1)..(j - 1) : s[k] # ">"

\* s still holds a <URL|LABEL> or a <http(s)://...>
HasSlackMarkup(s) ==
    \E i \in 1..Len(s) : ~IsNone(MatchLink(s, i)) \/ ~IsNone(MatchBareUrl(s, i))

-----------------------------------------------------------------------------
(* C1.  Once the primary call of a request has been made, what              *)
(* process_webhook returns and what handle_webhook answers depend on the   *)
(* primary outcome alone: the answer carries the primary result, it is     *)
(* never the 500 of an escaped exception, and two requests with the same   *)
(* primary outcome get the same result and the same answer whatever their  *)
(* mirror calls did (no mirror, 200, non-200, transport error, any other   *)
(* exception).                                                             *)
MirrorNeverChangesOutcome ==
    /\ \A t \in Threads :
          Finished(t) /\ Forwarded(t) =>
              /\ response[t].code # 500
              /\ response[t].body = result[t]
    /\ \A t, u \in Threads :
          /\ Finished(t) /\ Forwarded(t)
          /\ Finished(u) /\ Forwarded(u)
          /\ calls[t][1].outcome = calls[u][1].outcome
          => /\ result[t] = result[u]
             /\ response[t] = response[u]

\* two finished requests with the same primary outcome, one without a mirror
\* and one whose mirror call raised an exception that is not requests' own
MirrorNeverChangesOutcomeWitness ==
    \E t, u \in Threads :
        /\ Finished(t) /\ Len(calls[t]) = 1
        /\ Finished(u) /\ Len(calls[u]) = 2
        /\ calls[u][2].outcome.kind = "Exception"
        /\ calls[t][1].outcome = calls[u][1].outcome
        /\ calls[t][1].outcome.kind = "response"

(* C2.  The primary outcome is classified: an answer of exactly 200 gives  *)
(* status success and HTTP 200; an answer with any other code c (204       *)
(* included) gives status warning, response_code c and HTTP 202; a         *)
(* transport failure gives status error, the fixed message, no             *)
(* response_code and HTTP 400.  response_code is present exactly when an   *)
(* answer was received.                                                    *)
PrimaryOutcomeClassified ==
    \A t \in Threads :
        Finished(t) /\ Forwarded(t) =>
            LET outcome == calls[t][1].outcome
                body == response[t].body
                code == response[t].code
            IN  /\ outcome.kind = "response" /\ outcome.status_code = 200
                   => body.status = "success" /\ code = 200
                /\ outcome.kind = "response" /\ outcome.status_code # 200
                   => /\ body.status = "warning"
                      /\ "response_code" \in DOMAIN body
                      /\ body.response_code = outcome.status_code
                      /\ code = 202
                /\ outcome.kind # "response"
                   => /\ body.status = "error"
                      /\ body.message =
                            <<"Error forwarding webhook to target server">>
                      /\ code = 400
                /\ "response_code" \in DOMAIN body <=> outcome.kind = "response"

\* a destination that answered 204 got the request a warning and a 202
PrimaryOutcomeClassifiedWitness ==
    \E t \in Threads :
        /\ Finished(t) /\ Forwarded(t)
        /\ calls[t][1].outcome = [kind |-> "response", status_code |-> 204]
        /\ response[t].code = 202
        /\ response[t].body.response_code = 204

(* C3, as claimed.  A request whose service identifier is absent from the  *)
(* snapshot, or whose entry lacks the destination URL or the target,       *)
(* issues no outbound call and ends with status error and HTTP 400.        *)
UnconfiguredAlways400 ==
    \A t \in Threads :
        ~IsNone(seen[t]) /\ Unconfigured(seen[t].config, service_id[t]) =>
            /\ calls[t] = <<>>
            /\ Finished(t) =>
                  response[t].body.status = "error" /\ response[t].code = 400

(* C3, amended.  Such a request issues no outbound call, even when the     *)
(* entry declares a mirror URL, and ends with status error; the HTTP code  *)
(* is 400 when the lookup ran, and 500 when reload-on-read failed before   *)
(* it.                                                                     *)
UnconfiguredNeverForwarded ==
    \A t \in Threads :
        ~IsNone(seen[t]) /\ Unconfigured(seen[t].config, service_id[t]) =>
            /\ calls[t] = <<>>
            /\ Finished(t) =>
                  /\ response[t].body.status = "error"
                  /\ response[t].code = IF seen[t].looked_up THEN 400 ELSE 500

\* a request for an entry that has a mirror URL and no target was answered 400
UnconfiguredNeverForwardedWitness ==
    \E t \in Threads :
        /\ Finished(t)
        /\ ~IsNone(seen[t])
        /\ seen[t].looked_up
        /\ service_id[t] \in DOMAIN seen[t].config.services
        /\ "slack_webhook" \in DOMAIN seen[t].config.services[service_id[t]]
        /\ Lacks(seen[t].config.services[service_id[t]], "target")
        /\ response[t].code = 400
        /\ calls[t] = <<>>

(* C4.  For a payload whose attachments[0].text is non-empty, the request  *)
(* sent to the primary destination has text = the converted attachment     *)
(* text, target = the service's target, threadSubject = the heading-       *)
(* stripped top-level text, present exactly when that is non-empty, and    *)
(* no other field.                                                         *)
ForwardRequestFromAttachment ==
    \A t \in Threads : \A i \in PrimaryCalls(t) :
        HasAttachmentText(payload[t]) =>
            LET json == calls[t][i].json
                subject == HeadingStripped(payload[t])
            IN  /\ json.text =
                      _convert_slack_to_markdown(payload[t].attachments[1].text)
                /\ json.target = seen[t].config.services[service_id[t]].target
                /\ "threadSubject" \in DOMAIN json <=> subject # <<>>
                /\ subject # <<>> => json.threadSubject = subject
                /\ DOMAIN json \subseteq {"text", "target", "threadSubject"}

\* {"text": "# a", "attachments": [{"text": "<http://x|b>"}]} was forwarded
ForwardRequestFromAttachmentWitness ==
    \E t \in Threads : \E i \in PrimaryCalls(t) :
        /\ payload[t] =
              [text |-> <<"#", " ", "a">>,
               attachments |->
                   <<[text |-> <<"<", "http://", "x", "|", "b", ">">>]>>]
        /\ calls[t][i].json =
              [text |-> <<"[", "b", "]", "(", "http://", "x", ")">>,
               target |-> "grp_1",
               threadSubject |-> <<"a">>]

(* C5, as claimed.  Whenever the extracted body, before conversion, is the *)
(* payload's raw top-level text, the forwarded request has no              *)
(* threadSubject.                                                          *)
SubjectDroppedWheneverBodyIsText ==
    \A t \in Threads : \A i \in PrimaryCalls(t) :
        "text" \in DOMAIN payload[t] /\ MessageText(payload[t]) = payload[t].text
            => "threadSubject" \notin DOMAIN calls[t][i].json

(* C5, amended.  Whenever attachments[0].text is absent or empty, so that  *)
(* the body falls back to the top-level text or further, the forwarded     *)
(* request has no threadSubject; when a non-empty text is the payload's    *)
(* only field the body is the converted text.                              *)
SubjectDroppedWhenBodyFallsBack ==
    \A t \in Threads : \A i \in PrimaryCalls(t) :
        /\ ~HasAttachmentText(payload[t])
              => "threadSubject" \notin DOMAIN calls[t][i].json
        /\ DOMAIN payload[t] = {"text"} /\ payload[t].text # <<>>
              => calls[t][i].json.text =
                    _convert_slack_to_markdown(payload[t].text)

\* {"text": "# a"} was forwarded without a threadSubject
SubjectDroppedWhenBodyFallsBackWitness ==
    \E t \in Threads : \E i \in PrimaryCalls(t) :
        /\ payload[t] = [text |-> <<"#", " ", "a">>]
        /\ "threadSubject" \notin DOMAIN calls[t][i].json
        /\ calls[t][i].json.text = <<"#", " ", "a">>

(* C6, as claimed.  Converting the converted string changes nothing.       *)
ConvertIdempotent ==
    Len(converted) = 2 => converted[2] = converted[1]

(* C6, amended.  For a string without nested angle brackets (no '<'        *)
(* between a '<' and the next '>'), the converted string holds no          *)
(* <URL|LABEL> and no <http(s)://...> any more, and converting it again    *)
(* changes nothing.                                                        *)
ConvertIdempotentWithoutNesting ==
    ~Nested(text) =>
        /\ Len(converted) >= 1 => ~HasSlackMarkup(converted[1])
        /\ Len(converted) = 2 => converted[2] = converted[1]

\* <http://x|x> was converted to [x](http://x), and that to itself
ConvertIdempotentWithoutNestingWitness ==
    /\ text = <<"<", "http://", "x", "|", "x", ">">>
    /\ converted = << <<"[", "x", "]", "(", "http://", "x", ")">>,
                      <<"[", "x", "]", "(", "http://", "x", ")">> >>

(* C7.  The text of every request sent to the primary destination is       *)
(* non-empty, whichever step of the fallback chain supplied it.            *)
ForwardedBodyNeverEmpty ==
    \A t \in Threads : \A i \in PrimaryCalls(t) :
        calls[t][i].json.text # <<>>

\* a payload without any text was forwarded as its own string form
ForwardedBodyNeverEmptyWitness ==
    \E t \in Threads : \E i \in PrimaryCalls(t) :
        /\ payload[t] = [text |-> <<>>, message |-> [user |-> "u"]]
        /\ calls[t][i].json.text = Str(payload[t])
        /\ Len(calls[t][i].json.text) > 2

(* C8.  The primary call is made with the globally configured timeout      *)
(* (global.timeout_seconds when set, 30 otherwise), so the primary and the *)
(* mirror call of one request apply the same timeout.                      *)
PrimaryUsesConfiguredTimeout ==
    \A t \in Threads : \A i \in PrimaryCalls(t) :
        /\ calls[t][i].timeout = ConfiguredTimeout(seen[t].config)
        /\ \A j \in MirrorCalls(t) : calls[t][j].timeout = calls[t][i].timeout

(* C9.  A request that resolved a complete service entry makes exactly one *)
(* primary call; when the entry declares a mirror URL it then makes        *)
(* exactly one mirror call, after the primary call whatever its outcome,   *)
(* with the inbound payload as received, and before the answer; without a  *)
(* mirror URL it makes none.                                               *)
OnePrimaryThenOneMirror ==
    \A t \in Threads :
        LET sc == service_config[t]
            mirrored == ~Lacks(sc, "slack_webhook")
        IN  ~IsNone(sc) /\ ~Lacks(sc, "webhook_url") /\ ~Lacks(sc, "target") =>
                /\ pc[t] \in {"primary", "mirror", "done"}
                /\ pc[t] = "primary" => calls[t] = <<>>
                /\ pc[t] = "mirror" => mirrored /\ Len(calls[t]) = 1
                /\ pc[t] = "done" => Len(calls[t]) = IF mirrored THEN 2 ELSE 1
                /\ Len(calls[t]) >= 1 =>
                      /\ calls[t][1].kind = "primary"
                      /\ calls[t][1].url = sc.webhook_url
                /\ Len(calls[t]) >= 2 =>
                      /\ calls[t][2].kind = "mirror"
                      /\ calls[t][2].url = sc.slack_webhook
                      /\ calls[t][2].json = payload[t]

\* after a primary transport failure the mirror got the inbound payload
OnePrimaryThenOneMirrorWitness ==
    \E t \in Threads :
        /\ Finished(t)
        /\ Len(calls[t]) = 2
        /\ calls[t][1].outcome.kind = "RequestException"
        /\ calls[t][2].json = payload[t]
        /\ calls[t][2].json # calls[t][1].json

(* C10.  Every configuration value of a request's outbound calls           *)
(* (destination URL, target, mirror URL, configured timeout) comes from    *)
(* the one snapshot in which the request looked up its service, whatever   *)
(* other requests reload in between.                                       *)
CallsUseOneSnapshot ==
    \A t \in Threads : \A i \in 1..Len(calls[t]) :
        LET entry == seen[t].config.services[service_id[t]]
            call == calls[t][i]
        IN  IF call.kind = "primary"
            THEN /\ call.url = entry.webhook_url
                 /\ call.json.target = entry.target
            ELSE /\ call.url = entry.slack_webhook
                 /\ call.timeout = ConfiguredTimeout(seen[t].config)

=============================================================================
